---- MODULE Spec2Model ----
(***************************************************************************)
(* Landmark delivery notes: the lifecycle of one Landmark Delivery Note    *)
(* record (landmark_delivery_note.py), the handlers that mutate it         *)
(* (api.py, azure_parser.py, whatsapp_sender.py) and the extraction of an  *)
(* Azure analysis result into header fields and line items.                *)
(*                                                                         *)
(* Conventions.  Python None and the empty string are falsy alike in every *)
(* test the code makes on them, and are both written "" here; an unset     *)
(* timestamp is 0 and now() is the value of clock (>= 1).  A float is a    *)
(* record [k, v]: k = "fin" with the integer value v, or "inf" / "nan".    *)
(***************************************************************************)
EXTENDS Integers, Sequences, FiniteSets, TLC

\* db, doc, err, op, clock: the record and the handlers that act on it;
\* ex: one extraction followed step by step; az: one analysis call
VARIABLES db, doc, err, op, clock, ex, az

vars == <<db, doc, err, op, clock, ex, az>>

(* ------------------------------ bounds ------------------------------- *)

\* now() takes the values 1..MaxClock
MaxClock == 2

(* ------------------------------ strings ------------------------------ *)

Ch(s, i) == SubSeq(s, i, i)

UpperChars == <<"A","B","C","D","E","F","G","H","I","J","K","L","M",
                "N","O","P","Q","R","S","T","U","V","W","X","Y","Z">>

LowerChars == <<"a","b","c","d","e","f","g","h","i","j","k","l","m",
                "n","o","p","q","r","s","t","u","v","w","x","y","z">>

LowerChar(c) ==
    IF \E k \in DOMAIN UpperChars : UpperChars[k] = c
    THEN LowerChars[CHOOSE k \in DOMAIN UpperChars : UpperChars[k] = c]
    ELSE c

\* str.lower()
RECURSIVE Lower(_)
Lower(s) == IF Len(s) = 0 THEN "" ELSE LowerChar(Ch(s, 1)) \o Lower(SubSeq(s, 2, Len(s)))

\* str.strip(): leading and trailing blanks removed
RECURSIVE LStrip(_)
LStrip(s) == IF Len(s) > 0 /\ Ch(s, 1) = " " THEN LStrip(SubSeq(s, 2, Len(s))) ELSE s

RECURSIVE RStrip(_)
RStrip(s) == IF Len(s) > 0 /\ Ch(s, Len(s)) = " " THEN RStrip(SubSeq(s, 1, Len(s) - 1)) ELSE s

Strip(s) == RStrip(LStrip(s))

\* Python's  sub in s
Contains(s, sub) ==
    \E i \in 1..(Len(s) - Len(sub) + 1) : SubSeq(s, i, i + Len(sub) - 1) = sub

(* ------------------------------ floats ------------------------------- *)

Fin(n) == [k |-> "fin", v |-> n]
Inf == [k |-> "inf", v |-> 0]
NaN == [k |-> "nan", v |-> 0]

(* --------------------------- the record ------------------------------ *)

Statuses == {"Image Received", "Parsed", "Awaiting Driver Confirmation",
             "Confirmed by Driver", "Delivered - Cash Received", "Delivered - Credit"}

Terminal == {"Delivered - Cash Received", "Delivered - Credit"}

HeaderFields == {"delivery_note_no", "delivery_date", "sales_order_no",
                 "sales_responsible", "delivery_mode", "customer_code",
                 "customer_name", "customer_phone", "customer_reference",
                 "delivery_address"}

\* whatsapp_inbound: the record is inserted with status Image Received and
\* nothing else of the lifecycle set
NewNote ==
    [status |-> "Image Received",
     payment_type |-> "",
     driver_confirmed_at |-> 0,
     delivered_at |-> 0,
     items |-> <<>>,
     hdr |-> [f \in HeaderFields |-> ""],
     raw_azure_json |-> ""]

(* ---------------------- LandmarkDeliveryNote.validate ----------------- *)

\* mutant: a record awaiting the driver may be parsed again
valid_status_flow_AwaitingToParsed(s) ==
    CASE s = "Image Received" -> {"Parsed", "Awaiting Driver Confirmation"}
      [] s = "Parsed" -> {"Awaiting Driver Confirmation"}
      [] s = "Awaiting Driver Confirmation" -> {"Confirmed by Driver", "Parsed"}
      [] s = "Confirmed by Driver" -> {"Delivered - Cash Received", "Delivered - Credit"}
      [] OTHER -> {}

\* mutant: a parsed record may be confirmed without the review flow
valid_status_flow_ParsedToConfirmed(s) ==
    CASE s = "Image Received" -> {"Parsed", "Awaiting Driver Confirmation"}
      [] s = "Parsed" -> {"Awaiting Driver Confirmation", "Confirmed by Driver"}
      [] s = "Awaiting Driver Confirmation" -> {"Confirmed by Driver"}
      [] s = "Confirmed by Driver" -> {"Delivered - Cash Received", "Delivered - Credit"}
      [] OTHER -> {}

valid_status_flow(s) ==
    CASE s = "Image Received" -> {"Parsed", "Awaiting Driver Confirmation"}
      [] s = "Parsed" -> {"Awaiting Driver Confirmation"}
      [] s = "Awaiting Driver Confirmation" -> {"Confirmed by Driver"}
      [] s = "Confirmed by Driver" -> {"Delivered - Cash Received", "Delivered - Credit"}
      [] OTHER -> {}

\* mutant: an empty list of allowed statuses is taken for "no restriction"
StatusFlowThrows_EmptyAllowedSkipped(old, d) ==
    /\ old.status # d.status
    /\ valid_status_flow(old.status) # {}
    /\ d.status \notin valid_status_flow(old.status)

\* TRUE when validate_status_flow throws: the status differs from the one
\* persisted before the save and is not allowed after it
StatusFlowThrows(old, d) ==
    old.status # d.status /\ d.status \notin valid_status_flow(old.status)

confirmation_statuses ==
    {"Confirmed by Driver", "Delivered - Cash Received", "Delivered - Credit"}

\* mutant: only the two delivered statuses require items
ItemsForConfirmationThrows_DeliveredOnly(d) ==
    d.status \in {"Delivered - Cash Received", "Delivered - Credit"} /\ d.items = <<>>

\* mutant: a record without items is never rejected
ItemsForConfirmationThrows_Never(d) == FALSE

\* TRUE when validate_items_for_confirmation throws
ItemsForConfirmationThrows(d) ==
    d.status \in confirmation_statuses /\ d.items = <<>>

\* mutant: the second branch has lost its condition
validate_payment_type_ElseCredit(d) ==
    IF d.status = "Delivered - Cash Received" /\ d.payment_type # "Cash"
    THEN [d EXCEPT !.payment_type = "Cash"]
    ELSE IF d.status # "Delivered - Cash Received"
    THEN [d EXCEPT !.payment_type = "Credit"]
    ELSE d

validate_payment_type(d) ==
    IF d.status = "Delivered - Cash Received" /\ d.payment_type # "Cash"
    THEN [d EXCEPT !.payment_type = "Cash"]
    ELSE IF d.status = "Delivered - Credit" /\ d.payment_type # "Credit"
    THEN [d EXCEPT !.payment_type = "Credit"]
    ELSE d

\* item_name[:40]
ShortNameLen == 40

ShortName(name) ==
    IF Len(name) > ShortNameLen
    THEN SubSeq(name, 1, ShortNameLen) \o "..."
    ELSE name

\* mutant: the short name is generated again at every validation
generate_short_item_names_Regenerates(d) ==
    [d EXCEPT !.items =
        [i \in DOMAIN d.items |->
            IF d.items[i].item_name # ""
            THEN [d.items[i] EXCEPT !.item_name_short = ShortName(d.items[i].item_name)]
            ELSE d.items[i]]]

generate_short_item_names(d) ==
    [d EXCEPT !.items =
        [i \in DOMAIN d.items |->
            IF d.items[i].item_name # "" /\ d.items[i].item_name_short = ""
            THEN [d.items[i] EXCEPT !.item_name_short = ShortName(d.items[i].item_name)]
            ELSE d.items[i]]]

\* Document.save: the child rows that have no name yet are named (their key
\* is their position), validate runs, and the record is written only when
\* no validation threw.  The result is the error raised ("" for none), the
\* in-memory record and the persisted record after the call.
NameChildren(d) ==
    [d EXCEPT !.items =
        [i \in DOMAIN d.items |->
            IF d.items[i].name = 0 THEN [d.items[i] EXCEPT !.name = i] ELSE d.items[i]]]

\* mutant: the items are validated before the status flow
Save_ItemsBeforeStatusFlow(old, d0) ==
    LET d == NameChildren(d0) IN
    IF ItemsForConfirmationThrows(d)
    THEN [err |-> "NoItemsToConfirm", doc |-> d, db |-> old]
    ELSE IF StatusFlowThrows(old, d)
    THEN [err |-> "InvalidTransition", doc |-> d, db |-> old]
    ELSE LET v == generate_short_item_names(validate_payment_type(d))
         IN [err |-> "", doc |-> v, db |-> v]

Save(old, d0) ==
    LET d == NameChildren(d0) IN
    IF StatusFlowThrows(old, d)
    THEN [err |-> "InvalidTransition", doc |-> d, db |-> old]
    ELSE IF ItemsForConfirmationThrows(d)
    THEN [err |-> "NoItemsToConfirm", doc |-> d, db |-> old]
    ELSE LET v == generate_short_item_names(validate_payment_type(d))
         IN [err |-> "", doc |-> v, db |-> v]

(* ------------------------- safe_int / safe_float ---------------------- *)

Digits == <<"0", "1", "2", "3", "4", "5", "6", "7", "8", "9">>

IsDigit(c) == \E k \in DOMAIN Digits : Digits[k] = c

DigitVal(c) == (CHOOSE k \in DOMAIN Digits : Digits[k] = c) - 1

IsDigits(s) == Len(s) > 0 /\ \A i \in 1..Len(s) : IsDigit(Ch(s, i))

RECURSIVE DecVal(_)
DecVal(s) == IF Len(s) = 0 THEN 0 ELSE 10 * DecVal(SubSeq(s, 1, Len(s) - 1)) + DigitVal(Ch(s, Len(s)))

\* str.replace(",", "")
RECURSIVE RemoveCommas(_)
RemoveCommas(s) ==
    IF Len(s) = 0 THEN ""
    ELSE (IF Ch(s, 1) = "," THEN "" ELSE Ch(s, 1)) \o RemoveCommas(SubSeq(s, 2, Len(s)))

\* Python's float(text) on the texts the model feeds it: an optionally signed
\* run of digits, "inf" / "infinity" / "nan" in any case, blanks around them
\* ignored; anything else is a ValueError (ok = FALSE).
PyFloat(text) ==
    LET t == Strip(text)
        neg == Len(t) > 0 /\ Ch(t, 1) = "-"
        signed == Len(t) > 0 /\ Ch(t, 1) \in {"-", "+"}
        body == IF signed THEN SubSeq(t, 2, Len(t)) ELSE t
        low == Lower(body)
    IN  IF IsDigits(body)
        THEN [ok |-> TRUE, val |-> Fin(IF neg THEN 0 - DecVal(body) ELSE DecVal(body))]
        ELSE IF low \in {"inf", "infinity"}
        THEN [ok |-> TRUE, val |-> [Inf EXCEPT !.v = IF neg THEN 0 - 1 ELSE 1]]
        ELSE IF low = "nan"
        THEN [ok |-> TRUE, val |-> NaN]
        ELSE [ok |-> FALSE, val |-> Fin(0)]

\* safe_float(value): never raises; every failure gives the default 0.0
safe_float(value) ==
    IF value = "" THEN Fin(0)
    ELSE LET f == PyFloat(RemoveCommas(value))
         IN IF f.ok THEN f.val ELSE Fin(0)

\* safe_int(value): raised = TRUE stands for the OverflowError of
\* int(float("inf")), which the except clause (ValueError, TypeError) does
\* not catch; int(float("nan")) is a ValueError and gives the default 0.
safe_int(value) ==
    IF value = "" THEN [raised |-> FALSE, val |-> 0]
    ELSE LET f == PyFloat(RemoveCommas(value))
         IN IF ~f.ok THEN [raised |-> FALSE, val |-> 0]
            ELSE IF f.val.k = "inf" THEN [raised |-> TRUE, val |-> 0]
            ELSE IF f.val.k = "nan" THEN [raised |-> FALSE, val |-> 0]
            ELSE [raised |-> FALSE, val |-> f.val.v]

(* ------------------------ extract_key_value_pairs --------------------- *)

\* JSON null as the content of a key, a value or a cell
Null == "<null>"

\* dict lookup with the default "": d is a sequence of [k, v] in insertion
\* order, a later entry for the same key replacing the earlier one
PairsGet(d, key) ==
    LET hits == {i \in DOMAIN d : d[i].k = key}
    IN IF hits = {} THEN ""
       ELSE d[CHOOSE i \in hits : \A j \in hits : j <= i].v

\* the keyValuePairs loop: an entry whose key or value is missing or empty
\* is skipped
RECURSIVE KvPairs(_)
KvPairs(kvs) ==
    IF kvs = <<>> THEN <<>>
    ELSE LET kv == Head(kvs)
             key_text == Strip(Lower(kv.key))
             value_text == Strip(kv.value)
         IN (IF kv.has_key /\ kv.has_value /\ key_text # "" /\ value_text # ""
             THEN <<[k |-> key_text, v |-> value_text]>>
             ELSE <<>>) \o KvPairs(Tail(kvs))

\* the documents/fields loop: a field with "content" or "valueString" is
\* stored under its lower-cased name (not stripped), whatever its text (a
\* null text is stored as None, which is falsy like "")
RECURSIVE FieldPairs(_)
FieldPairs(fields) ==
    IF fields = <<>> THEN <<>>
    ELSE LET fd == Head(fields)
         IN (IF fd.kind \in {"content", "valueString"}
             THEN <<[k |-> Lower(fd.name), v |-> IF fd.text = Null THEN "" ELSE fd.text]>>
             ELSE <<>>) \o FieldPairs(Tail(fields))

\* raised: .lower() / .strip() on a null key or value content
KvRaises(kvs) ==
    \E i \in DOMAIN kvs :
        /\ kvs[i].has_key /\ kvs[i].has_value
        /\ \/ kvs[i].key = Null
           \/ kvs[i].value = Null

extract_key_value_pairs(analyze_result) ==
    KvPairs(analyze_result.keyValuePairs) \o FieldPairs(analyze_result.documents)

(* -------------------------- parse_items_table ------------------------- *)

\* mutant: the unit rule is tried before the item id rule and does not
\* exclude "qty"
ClassifyHeader_UnitFirst(header) ==
    IF Contains(header, "sr") \/ (Contains(header, "no") /\ Len(header) < 10) THEN "sr_no"
    ELSE IF Contains(header, "unit") THEN "unit"
    ELSE IF Contains(header, "item id") \/ Contains(header, "itemid") THEN "item_id"
    ELSE IF Contains(header, "flexi") THEN "flexi_code"
    ELSE IF Contains(header, "item name") \/ Contains(header, "description") THEN "item_name"
    ELSE IF Contains(header, "qty") \/ Contains(header, "quantity") THEN "qty"
    ELSE IF Contains(header, "carton") THEN "cartons"
    ELSE ""

\* the decision list of lines 297-310 on one lower-cased, stripped header;
\* "" when no rule applies
ClassifyHeader(header) ==
    IF Contains(header, "sr") \/ (Contains(header, "no") /\ Len(header) < 10) THEN "sr_no"
    ELSE IF Contains(header, "item id") \/ Contains(header, "itemid") THEN "item_id"
    ELSE IF Contains(header, "flexi") THEN "flexi_code"
    ELSE IF Contains(header, "item name") \/ Contains(header, "description") THEN "item_name"
    ELSE IF Contains(header, "unit") /\ ~Contains(header, "qty") THEN "unit"
    ELSE IF Contains(header, "qty") \/ Contains(header, "quantity") THEN "qty"
    ELSE IF Contains(header, "carton") THEN "cartons"
    ELSE ""

\* Python list indexing: a negative index counts from the end
PyIndex(i, n) == IF i < 0 THEN i + n ELSE i

\* lines 283-289: the cells are placed one after the other, a later cell
\* overwriting an earlier one at the same position.  raised: .strip() on a
\* null content, or an IndexError for an index below -rowCount / -columnCount
RECURSIVE PlaceCells(_, _, _, _)
PlaceCells(grid, cells, row_count, column_count) ==
    IF cells = <<>> THEN [raised |-> FALSE, grid |-> grid]
    ELSE LET cell == Head(cells)
             row_idx == cell.rowIndex
             col_idx == cell.columnIndex
         IN IF cell.content = Null THEN [raised |-> TRUE, grid |-> grid]
            ELSE IF row_idx < row_count /\ col_idx < column_count
            THEN IF PyIndex(row_idx, row_count) < 0 \/ PyIndex(col_idx, column_count) < 0
                 THEN [raised |-> TRUE, grid |-> grid]
                 ELSE PlaceCells(
                        [grid EXCEPT ![PyIndex(row_idx, row_count)][PyIndex(col_idx, column_count)]
                                         = Strip(cell.content)],
                        Tail(cells), row_count, column_count)
            ELSE PlaceCells(grid, Tail(cells), row_count, column_count)

BuildGrid(table) ==
    PlaceCells([r \in 0..(table.rowCount - 1) |-> [c \in 0..(table.columnCount - 1) |-> ""]],
               table.cells, table.rowCount, table.columnCount)

\* col_map[key]: the index of the last header classified as key, -1 when
\* key is not in col_map
ColMap(grid, column_count, key) ==
    LET hits == {c \in 0..(column_count - 1) : ClassifyHeader(Strip(Lower(grid[0][c]))) = key}
    IN IF hits = {} THEN 0 - 1 ELSE CHOOSE c \in hits : \A d \in hits : d <= c

\* lines 320-328: the item dict of one data row
RowItem(grid, column_count, row_idx) ==
    LET row == grid[row_idx]
        col(key) == ColMap(grid, column_count, key)
        has(key) == col(key) >= 0
    IN [name |-> 0,
        sr_no |-> IF has("sr_no") THEN safe_int(row[col("sr_no")]).val ELSE row_idx,
        item_id |-> IF has("item_id") THEN row[col("item_id")] ELSE "",
        flexi_code |-> IF has("flexi_code") THEN row[col("flexi_code")] ELSE "",
        item_name |-> IF has("item_name") THEN row[col("item_name")] ELSE "",
        item_name_short |-> "",
        unit |-> IF has("unit") THEN row[col("unit")] ELSE "",
        qty |-> IF has("qty") THEN safe_float(row[col("qty")]) ELSE Fin(0),
        cartons |-> IF has("cartons") THEN safe_float(row[col("cartons")]) ELSE Fin(0)]

\* not any(row)
RowEmpty(grid, column_count, row_idx) ==
    \A c \in 0..(column_count - 1) : grid[row_idx][c] = ""

RowRaises(grid, column_count, row_idx) ==
    /\ ~RowEmpty(grid, column_count, row_idx)
    /\ ColMap(grid, column_count, "sr_no") >= 0
    /\ safe_int(grid[row_idx][ColMap(grid, column_count, "sr_no")]).raised

\* mutant: every row that is not blank yields an item
RECURSIVE DataRows_KeepsNonBlank(_, _, _, _)
DataRows_KeepsNonBlank(grid, row_count, column_count, from) ==
    IF from >= row_count THEN <<>>
    ELSE (IF ~RowEmpty(grid, column_count, from)
          THEN <<RowItem(grid, column_count, from)>>
          ELSE <<>>) \o DataRows_KeepsNonBlank(grid, row_count, column_count, from + 1)

\* lines 313-332: the retained items of rows from..rowCount-1, in row order
RECURSIVE DataRows(_, _, _, _)
DataRows(grid, row_count, column_count, from) ==
    IF from >= row_count THEN <<>>
    ELSE LET item == RowItem(grid, column_count, from)
         IN (IF ~RowEmpty(grid, column_count, from) /\ (item.item_name # "" \/ item.item_id # "")
             THEN <<item>>
             ELSE <<>>) \o DataRows(grid, row_count, column_count, from + 1)

\* parse_items_table(doc, table): the items it leaves in doc.items, and
\* whether it raised (the items are cleared first in every case)
parse_items_table(table) ==
    IF table.rowCount = 0 \/ table.columnCount = 0
    THEN [raised |-> FALSE, items |-> <<>>]
    ELSE LET g == BuildGrid(table)
         IN IF g.raised THEN [raised |-> TRUE, items |-> <<>>]
            ELSE IF \E r \in 1..(table.rowCount - 1) : RowRaises(g.grid, table.columnCount, r)
            THEN [raised |-> TRUE, items |-> <<>>]
            ELSE [raised |-> FALSE,
                  items |-> DataRows(g.grid, table.rowCount, table.columnCount, 1)]

(* ------------------------- parse_azure_response ----------------------- *)

field_mapping ==
    << <<"delivery note number", "delivery_note_no">>,
       <<"delivery note no", "delivery_note_no">>,
       <<"dn no", "delivery_note_no">>,
       <<"date", "delivery_date">>,
       <<"sales order number", "sales_order_no">>,
       <<"sales order no", "sales_order_no">>,
       <<"so no", "sales_order_no">>,
       <<"sales responsible", "sales_responsible">>,
       <<"delivery mode", "delivery_mode">>,
       <<"customer code", "customer_code">>,
       <<"customer name", "customer_name">>,
       <<"phone", "customer_phone">>,
       <<"customer reference", "customer_reference">>,
       <<"delivery address", "delivery_address">>,
       <<"address", "delivery_address">> >>

\* mutant: the field is set whether or not it already has a value
SetHeaderField_Overwrites(hdr, value, doc_field) ==
    IF value # ""
    THEN [hdr EXCEPT ![doc_field] = value]
    ELSE hdr

\* one pass of the loop of lines 220-223: value is what the pairs hold
\* under the entry's label
SetHeaderField(hdr, value, doc_field) ==
    IF value # "" /\ hdr[doc_field] = ""
    THEN [hdr EXCEPT ![doc_field] = value]
    ELSE hdr

\* key_value_pairs.get(azure_key.lower()) for every entry of field_mapping
LabelValues(pairs) ==
    [k \in DOMAIN field_mapping |-> PairsGet(pairs, Lower(field_mapping[k][1]))]

\* the loop of lines 220-223 over the entries from k on, in dict order
RECURSIVE MapHeaderFields(_, _, _)
MapHeaderFields(hdr, values, k) ==
    IF k > Len(field_mapping) THEN hdr
    ELSE MapHeaderFields(SetHeaderField(hdr, values[k], field_mapping[k][2]), values, k + 1)

\* what an analysis result yields whatever the record holds: whether the
\* key/value extraction raises, the value found for each vocabulary entry,
\* and the outcome of parse_items_table on the first table
Extraction(analyze_result) ==
    [kv_raised |-> KvRaises(analyze_result.keyValuePairs),
     values |-> LabelValues(extract_key_value_pairs(analyze_result)),
     has_table |-> analyze_result.tables # <<>>,
     table |-> IF analyze_result.tables = <<>>
               THEN [raised |-> FALSE, items |-> <<>>]
               ELSE parse_items_table(analyze_result.tables[1])]

\* parse_azure_response(doc, azure_result), x being Extraction(azure_result):
\* any exception inside is turned into frappe.throw("Failed to parse Azure
\* response"); the record given back is the in-memory one at that point
parse_azure_response(d, x) ==
    IF x.kv_raised
    THEN [raised |-> TRUE, doc |-> d]
    ELSE LET d1 == [d EXCEPT !.hdr = MapHeaderFields(d.hdr, x.values, 1)]
         IN IF ~x.has_table
            THEN [raised |-> FALSE, doc |-> d1]
            ELSE [raised |-> x.table.raised, doc |-> [d1 EXCEPT !.items = x.table.items]]

(* ----------------------- the inputs of the model ---------------------- *)

Kv(key, value) == [has_key |-> TRUE, has_value |-> TRUE, key |-> key, value |-> value]

Cell(r, c, content) == [rowIndex |-> r, columnIndex |-> c, content |-> content]

LongName == "Stainless steel kitchen sink double bowl 120cm"

\* one header pair, a table "Sr No | Item Name | Qty" with two data rows
ResultA ==
    [id |-> "A",
     keyValuePairs |-> <<Kv("DN No", " DN-123 ")>>,
     documents |-> <<>>,
     tables |-> <<[rowCount |-> 3, columnCount |-> 3,
                   cells |-> <<Cell(0, 0, "Sr No"), Cell(0, 1, "Item Name"), Cell(0, 2, "Qty"),
                               Cell(1, 0, "1"), Cell(1, 1, "Widget"), Cell(1, 2, "5"),
                               Cell(2, 0, "2"), Cell(2, 1, LongName), Cell(2, 2, "1,234")>>]>>]

\* two labels of one field in the reverse of the vocabulary order, a blank
\* row and a row with neither name nor id
ResultB ==
    [id |-> "B",
     keyValuePairs |-> <<Kv("dn no", "DN-7"), Kv("Delivery Note No", "DN-9"),
                         Kv("address", "Dubai")>>,
     documents |-> <<[name |-> "Phone", kind |-> "content", text |-> "050"]>>,
     tables |-> <<[rowCount |-> 4, columnCount |-> 3,
                   cells |-> <<Cell(0, 0, "Item ID"), Cell(0, 1, "Description"), Cell(0, 2, "Quantity"),
                               Cell(2, 0, "X-1"), Cell(2, 1, "Bolt"), Cell(2, 2, "7"),
                               Cell(3, 2, "9")>>]>>]

\* header pairs only: no table, the items are left alone
ResultC ==
    [id |-> "C",
     keyValuePairs |-> <<Kv("Delivery Address", "Sharjah"), Kv("Customer Name", "Acme")>>,
     documents |-> <<>>,
     tables |-> <<>>]

\* a table whose headers classify nothing: it yields no item
ResultD ==
    [id |-> "D",
     keyValuePairs |-> <<>>,
     documents |-> <<>>,
     tables |-> <<[rowCount |-> 2, columnCount |-> 4,
                   cells |-> <<Cell(0, 0, "A"), Cell(0, 1, "B"), Cell(0, 2, "C"), Cell(0, 3, "D"),
                               Cell(1, 0, "1"), Cell(1, 1, "X-2"), Cell(1, 2, "Nut"), Cell(1, 3, "3")>>]>>]

\* a successful analysis whose extraction raises (int(float("inf")))
ResultE ==
    [id |-> "E",
     keyValuePairs |-> <<Kv("phone", "055")>>,
     documents |-> <<>>,
     tables |-> <<[rowCount |-> 2, columnCount |-> 2,
                   cells |-> <<Cell(0, 0, "Sr"), Cell(0, 1, "Item Name"),
                               Cell(1, 0, "inf"), Cell(1, 1, "Nail")>>]>>]

RawResults == {ResultA, ResultB, ResultC, ResultD, ResultE}

ResultIds == {r.id : r \in RawResults}

\* the extraction of each result, computed once
Extracted == [id \in ResultIds |-> Extraction(CHOOSE r \in RawResults : r.id = id)]

None == [k |-> "none", v |-> 0]
BadQty == [k |-> "bad", v |-> 0]

Upd(name, qty) == [name |-> name, qty |-> qty]

\* the "items" payloads of driver_confirm_items: none, a matching key, a
\* key no item has, a missing key, a null qty, a qty float() rejects, and
\* two updates of one item
ItemUpdates ==
    { <<>>,
      <<Upd(1, Fin(8))>>,
      <<Upd(2, Fin(0)), Upd(9, Fin(4))>>,
      <<Upd(0, Fin(6)), Upd(1, None)>>,
      <<Upd(1, Fin(2)), Upd(2, BadQty)>>,
      <<Upd(1, Fin(3)), Upd(1, Fin(4))>> }

PaymentTypes == {"Cash", "Credit", "Bogus", ""}

ActionTokens == {"delivered_cash", "Delivered_Credit", "delivered", ""}

(* ------------------------------ handlers ------------------------------ *)

NoOp == [name |-> "", key |-> "", updates |-> <<>>, sent |-> FALSE]

\* the keys of col_map
SemanticKeys == {"sr_no", "item_id", "flexi_code", "item_name", "unit", "qty", "cartons"}

\* no extraction is being followed
ExIdle ==
    [pc |-> "idle", id |-> "", before |-> NewNote, doc |-> NewNote,
     before2 |-> NewNote, doc2 |-> NewNote,
     grid |-> [raised |-> FALSE, grid |-> <<>>],
     col_map |-> [key \in SemanticKeys |-> 0 - 1],
     raised |-> FALSE]

\* no analysis call is being followed
AzIdle ==
    [pc |-> "idle", via |-> "", max_retries |-> 0, timeout |-> 0, attempt |-> 0,
     posts |-> 0, produced |-> FALSE, location |-> "", elapsed |-> 0,
     status |-> "", error |-> ""]

Init ==
    /\ db = NewNote
    /\ doc = NewNote
    /\ err = ""
    /\ op = NoOp
    /\ clock = 1
    /\ ex = ExIdle
    /\ az = AzIdle

\* time passes between two handlers
Tick ==
    /\ clock < MaxClock
    /\ clock' = clock + 1
    /\ UNCHANGED <<db, doc, err, op, ex, az>>

\* parse_delivery_note_image with the analysis call raising (failed,
\* unexpected status, timeout, submit failure): nothing is touched
ParseAnalysisFails ==
    /\ op' = [NoOp EXCEPT !.name = "parse", !.key = "raise"]
    /\ err' = "MalformedAnalysisResult"
    /\ doc' = db
    /\ UNCHANGED <<db, clock, ex, az>>

\* mutant: the in-memory record is written when the extraction raises
ParseResult_WritesOnRaise(id) ==
    LET d1 == [db EXCEPT !.raw_azure_json = id]
        p == parse_azure_response(d1, Extracted[id])
    IN IF p.raised
       THEN [err |-> "ParseFailed", doc |-> p.doc, db |-> p.doc]
       ELSE Save(db, [p.doc EXCEPT !.status = "Parsed"])

ParseResult(id) ==
    LET d1 == [db EXCEPT !.raw_azure_json = id]
        p == parse_azure_response(d1, Extracted[id])
    IN IF p.raised
       THEN [err |-> "ParseFailed", doc |-> p.doc, db |-> db]
       ELSE Save(db, [p.doc EXCEPT !.status = "Parsed"])

\* parse_delivery_note_image with the analysis call returning result id
Parse(id) ==
    LET res == ParseResult(id)
    IN /\ op' = [NoOp EXCEPT !.name = "parse", !.key = id]
       /\ err' = res.err
       /\ doc' = res.doc
       /\ db' = res.db
       /\ UNCHANGED <<clock, ex, az>>

\* send_driver_review_flow with the message send raising
SendReviewFlowSendFails ==
    /\ op' = [NoOp EXCEPT !.name = "send"]
    /\ err' = "SendFailed"
    /\ doc' = db
    /\ UNCHANGED <<db, clock, ex, az>>

\* send_driver_review_flow: the message is sent, then the status is saved
SendReviewFlow ==
    LET res == Save(db, [db EXCEPT !.status = "Awaiting Driver Confirmation"])
    IN /\ op' = [NoOp EXCEPT !.name = "send", !.sent = TRUE]
       /\ err' = res.err
       /\ doc' = res.doc
       /\ db' = res.db
       /\ UNCHANGED <<clock, ex, az>>

\* mutant: the update is applied to every item, whatever its name
ApplyUpdate_IgnoresKey(items, u) ==
    IF u.name # 0 /\ u.qty.k # "none" /\ items # <<>>
    THEN IF u.qty.k = "bad"
         THEN [raised |-> TRUE, items |-> items]
         ELSE [raised |-> FALSE, items |-> [i \in DOMAIN items |-> [items[i] EXCEPT !.qty = u.qty]]]
    ELSE [raised |-> FALSE, items |-> items]

\* lines 165-172 of api.py for one update: the first item whose name is the
\* update's key gets float(new_qty)
ApplyUpdate(items, u) ==
    LET hits == {i \in DOMAIN items : items[i].name = u.name}
    IN IF u.name # 0 /\ u.qty.k # "none" /\ hits # {}
       THEN LET i == CHOOSE i \in hits : \A j \in hits : i <= j
            IN IF u.qty.k = "bad"
               THEN [raised |-> TRUE, items |-> items]
               ELSE [raised |-> FALSE, items |-> [items EXCEPT ![i].qty = u.qty]]
       ELSE [raised |-> FALSE, items |-> items]

RECURSIVE ApplyUpdates(_, _)
ApplyUpdates(items, updates) ==
    IF updates = <<>> THEN [raised |-> FALSE, items |-> items]
    ELSE LET a == ApplyUpdate(items, Head(updates))
         IN IF a.raised THEN a ELSE ApplyUpdates(a.items, Tail(updates))

\* mutant: driver_confirmed_at is not stamped
set_driver_confirmed_NoStamp(d) ==
    Save(db, [d EXCEPT !.status = "Confirmed by Driver"])

set_driver_confirmed(d) ==
    Save(db, [d EXCEPT !.status = "Confirmed by Driver", !.driver_confirmed_at = clock])

\* driver_confirm_items (confirmByDriver)
ConfirmResult(updates) ==
    LET a == ApplyUpdates(db.items, updates)
        d == [db EXCEPT !.items = a.items]
    IN IF a.raised
       THEN [err |-> "ValueError", doc |-> d, db |-> db]
       ELSE set_driver_confirmed(d)

ConfirmByDriver(updates) ==
    LET res == ConfirmResult(updates)
    IN /\ op' = [NoOp EXCEPT !.name = "confirm", !.updates = updates]
       /\ err' = res.err
       /\ doc' = res.doc
       /\ db' = res.db
       /\ UNCHANGED <<clock, ex, az>>

\* mutant: an unknown payment type does not throw and falls through to the
\* stamp and the save
set_delivered_NoThrow(payment_type) ==
    IF payment_type = "Cash"
    THEN Save(db, [db EXCEPT !.status = "Delivered - Cash Received",
                             !.payment_type = "Cash", !.delivered_at = clock])
    ELSE IF payment_type = "Credit"
    THEN Save(db, [db EXCEPT !.status = "Delivered - Credit",
                             !.payment_type = "Credit", !.delivered_at = clock])
    ELSE Save(db, [db EXCEPT !.delivered_at = clock])

\* mutant: delivered_at is not stamped
set_delivered_NoStamp(payment_type) ==
    IF payment_type = "Cash"
    THEN Save(db, [db EXCEPT !.status = "Delivered - Cash Received", !.payment_type = "Cash"])
    ELSE IF payment_type = "Credit"
    THEN Save(db, [db EXCEPT !.status = "Delivered - Credit", !.payment_type = "Credit"])
    ELSE [err |-> "InvalidPaymentType", doc |-> db, db |-> db]

\* LandmarkDeliveryNote.set_delivered on the record as loaded
set_delivered(payment_type) ==
    IF payment_type = "Cash"
    THEN Save(db, [db EXCEPT !.status = "Delivered - Cash Received",
                             !.payment_type = "Cash", !.delivered_at = clock])
    ELSE IF payment_type = "Credit"
    THEN Save(db, [db EXCEPT !.status = "Delivered - Credit",
                             !.payment_type = "Credit", !.delivered_at = clock])
    ELSE [err |-> "InvalidPaymentType", doc |-> db, db |-> db]

\* markDelivered: set_delivered called with a payment type
MarkDelivered(payment_type) ==
    LET res == set_delivered(payment_type)
    IN /\ op' = [NoOp EXCEPT !.name = "deliver", !.key = payment_type]
       /\ err' = res.err
       /\ doc' = res.doc
       /\ db' = res.db
       /\ UNCHANGED <<clock, ex, az>>

\* driver_delivery_status: the action token is lower-cased and dispatched
DeliveryStatusResult(token) ==
    LET action == Lower(token)
    IN IF action = "" THEN [err |-> "MissingAction", doc |-> db, db |-> db]
       ELSE IF action = "delivered_cash" THEN set_delivered("Cash")
       ELSE IF action = "delivered_credit" THEN set_delivered("Credit")
       ELSE [err |-> "InvalidAction", doc |-> db, db |-> db]

DriverDeliveryStatus(token) ==
    LET res == DeliveryStatusResult(token)
    IN /\ op' = [NoOp EXCEPT !.name = "status", !.key = token]
       /\ err' = res.err
       /\ doc' = res.doc
       /\ db' = res.db
       /\ UNCHANGED <<clock, ex, az>>

Next ==
    \/ Tick
    \/ ParseAnalysisFails
    \/ \E id \in ResultIds : Parse(id)
    \/ SendReviewFlowSendFails
    \/ SendReviewFlow
    \/ \E updates \in ItemUpdates : ConfirmByDriver(updates)
    \/ \E p \in PaymentTypes : MarkDelivered(p)
    \/ \E token \in ActionTokens : DriverDeliveryStatus(token)

Spec == Init /\ [][Next]_vars

(* ------------------- one extraction, step by step --------------------- *)
(* parse_delivery_note_image from the analysis result on: the header      *)
(* loop, the grid, the data rows and the save, applied to two target      *)
(* records at once so that what depends on the target can be told from    *)
(* what depends on the result.                                            *)

\* labels that contain a vocabulary entry without being one; a wide header
\* row with one header for most rules
ResultF ==
    [id |-> "F",
     keyValuePairs |-> <<Kv("Customer Phone No", "050"), Kv("Our DN No.", "DN-55"),
                         Kv("SO No", "SO-1")>>,
     documents |-> <<>>,
     tables |-> <<[rowCount |-> 2, columnCount |-> 8,
                   cells |-> <<Cell(0, 0, "S.No"), Cell(0, 1, "Item ID"), Cell(0, 2, "Flexi Code"),
                               Cell(0, 3, "Description"), Cell(0, 4, "Unit"), Cell(0, 5, "Unit Qty"),
                               Cell(0, 6, "No. of Cartons"), Cell(0, 7, "Remarks"),
                               Cell(1, 0, "1"), Cell(1, 1, "X-9"), Cell(1, 2, "FC1"),
                               Cell(1, 3, "Hinge"), Cell(1, 4, "pcs"), Cell(1, 5, "12"),
                               Cell(1, 6, "2"), Cell(1, 7, "fragile")>>]>>]

\* cells outside the declared bounds: beyond the last row, beyond the last
\* column, and with a negative row index
ResultG ==
    [id |-> "G",
     keyValuePairs |-> <<>>,
     documents |-> <<>>,
     tables |-> <<[rowCount |-> 3, columnCount |-> 2,
                   cells |-> <<Cell(0, 0, "Item Name"), Cell(0, 1, "Qty"),
                               Cell(1, 0, "Clamp"), Cell(1, 1, "4"),
                               Cell(3, 0, "Beyond"), Cell(1, 2, "Beyond"),
                               Cell(0 - 1, 0, "Wrapped")>>]>>]

\* a cell whose content is null
ResultH ==
    [id |-> "H",
     keyValuePairs |-> <<Kv("date", "2025-01-15")>>,
     documents |-> <<>>,
     tables |-> <<[rowCount |-> 2, columnCount |-> 2,
                   cells |-> <<Cell(0, 0, "Item Name"), Cell(0, 1, "Qty"),
                               Cell(1, 0, "Screw"), Cell(1, 1, Null)>>]>>]

\* a row index below -rowCount
ResultI ==
    [id |-> "I",
     keyValuePairs |-> <<>>,
     documents |-> <<>>,
     tables |-> <<[rowCount |-> 2, columnCount |-> 2,
                   cells |-> <<Cell(0, 0, "Item Name"), Cell(0, 1, "Qty"),
                               Cell(1, 0, "Washer"), Cell(0 - 3, 1, "6")>>]>>]

\* numeric cells that are empty, not numbers, "nan", "inf" outside the sr
\* column; a pair without a value; a row whose cells are missing
ResultJ ==
    [id |-> "J",
     keyValuePairs |-> <<[has_key |-> TRUE, has_value |-> FALSE, key |-> "phone", value |-> ""],
                         Kv("Delivery Mode", "Truck")>>,
     documents |-> <<[name |-> "Customer Code", kind |-> "valueString", text |-> "C-77"],
                     [name |-> "Date", kind |-> "other", text |-> "x"]>>,
     tables |-> <<[rowCount |-> 5, columnCount |-> 4,
                   cells |-> <<Cell(0, 0, "Sr"), Cell(0, 1, "Item Name"), Cell(0, 2, "Qty"),
                               Cell(0, 3, "Cartons"),
                               Cell(1, 0, "abc"), Cell(1, 1, "Pipe"), Cell(1, 2, "nan"), Cell(1, 3, "inf"),
                               Cell(2, 0, ""), Cell(2, 1, "Valve"), Cell(2, 2, ""), Cell(2, 3, "1,234"),
                               Cell(3, 0, "nan"), Cell(3, 1, "Elbow"), Cell(3, 2, "abc"),
                               Cell(4, 1, "Tee")>>]>>]

\* a table without dimensions
ResultK ==
    [id |-> "K",
     keyValuePairs |-> <<Kv("Sales Responsible", "Omar")>>,
     documents |-> <<>>,
     tables |-> <<[rowCount |-> 0, columnCount |-> 0,
                   cells |-> <<Cell(0, 0, "Item Name"), Cell(1, 0, "Lost")>>]>>]

\* a key whose content is null
ResultL ==
    [id |-> "L",
     keyValuePairs |-> <<Kv(Null, "DN-1")>>,
     documents |-> <<>>,
     tables |-> <<>>]

ExtractResults ==
    RawResults \cup {ResultF, ResultG, ResultH, ResultI, ResultJ, ResultK, ResultL}

ExtractIds == {r.id : r \in ExtractResults}

ResultOf(id) == CHOOSE r \in ExtractResults : r.id = id

Item(name, sr_no, item_id, item_name, item_name_short, qty) ==
    [name |-> name, sr_no |-> sr_no, item_id |-> item_id, flexi_code |-> "",
     item_name |-> item_name, item_name_short |-> item_name_short, unit |-> "",
     qty |-> Fin(qty), cartons |-> Fin(0)]

\* a record parsed and saved before, one of whose item names was edited in
\* the form after its short name had been generated
EditedNote ==
    [NewNote EXCEPT
        !.status = "Parsed",
        !.raw_azure_json = "A",
        !.hdr = [NewNote.hdr EXCEPT !["delivery_note_no"] = "DN-1",
                                    !["customer_phone"] = "044"],
        !.items = << Item(1, 1, "", "Widget XL", "Widget", 5),
                     Item(2, 2, "", LongName, ShortName(LongName), 7),
                     Item(3, 3, "X-3", "", "", 1) >>]

\* the records that were not parsed by the program before
FreshNotes == {NewNote, EditedNote}

\* the results that have a table and whose parse succeeds
TwiceIds == {id \in ResultIds : Extracted[id].has_table /\ ~Extracted[id].table.raised}

\* lines 52-60: the record a parse of result id leaves of record t
ParsedOnce ==
    [t \in FreshNotes, id \in TwiceIds |->
        Save(t, [parse_azure_response([t EXCEPT !.raw_azure_json = id], Extracted[id]).doc
                    EXCEPT !.status = "Parsed"]).db]

TargetNotes == FreshNotes \cup {ParsedOnce[t, id] : t \in FreshNotes, id \in TwiceIds}

\* the analysis of result id is handed to extraction for the targets t1, t2
ExStart(id, t1, t2) ==
    /\ ex.pc = "idle"
    /\ ex' = [ExIdle EXCEPT !.pc = "start", !.id = id,
                            !.before = t1, !.doc = [t1 EXCEPT !.raw_azure_json = id],
                            !.before2 = t2, !.doc2 = [t2 EXCEPT !.raw_azure_json = id]]
    /\ UNCHANGED <<db, doc, err, op, clock, az>>

\* lines 198-223: the pairs are extracted and the header loop runs
ExHeaders ==
    /\ ex.pc = "start"
    /\ LET r == ResultOf(ex.id)
           values == LabelValues(extract_key_value_pairs(r))
       IN IF KvRaises(r.keyValuePairs)
          THEN ex' = [ex EXCEPT !.pc = "raised", !.raised = TRUE]
          ELSE ex' = [ex EXCEPT
                        !.pc = IF r.tables = <<>> THEN "rows" ELSE "headers",
                        !.doc.hdr = MapHeaderFields(ex.doc.hdr, values, 1),
                        !.doc2.hdr = MapHeaderFields(ex.doc2.hdr, values, 1)]
    /\ UNCHANGED <<db, doc, err, op, clock, az>>

\* mutant: the items the record had are kept
ClearItems_Keeps(d) == d

\* mutant: the first item the record had is kept
ClearItems_KeepsFirst(d) ==
    [d EXCEPT !.items = IF d.items = <<>> THEN <<>> ELSE <<Head(d.items)>>]

\* line 270: doc.items = []
ClearItems(d) == [d EXCEPT !.items = <<>>]

\* lines 270-289: the items are cleared and the grid is built
ExGrid ==
    /\ ex.pc = "headers"
    /\ LET table == ResultOf(ex.id).tables[1]
           g == BuildGrid(table)
           cleared == [ex EXCEPT !.doc = ClearItems(ex.doc), !.doc2 = ClearItems(ex.doc2)]
       IN IF table.rowCount = 0 \/ table.columnCount = 0
          THEN ex' = [cleared EXCEPT !.pc = "rows"]
          ELSE IF g.raised
          THEN ex' = [cleared EXCEPT !.pc = "raised", !.raised = TRUE]
          ELSE ex' = [cleared EXCEPT !.pc = "grid", !.grid = g]
    /\ UNCHANGED <<db, doc, err, op, clock, az>>

\* lines 291-332: the headers are classified, the data rows are read and
\* the retained ones appended to the items
ExRows ==
    /\ ex.pc = "grid"
    /\ LET table == ResultOf(ex.id).tables[1]
           items == DataRows(ex.grid.grid, table.rowCount, table.columnCount, 1)
       IN IF \E r \in 1..(table.rowCount - 1) : RowRaises(ex.grid.grid, table.columnCount, r)
          THEN ex' = [ex EXCEPT !.pc = "raised", !.raised = TRUE]
          ELSE ex' = [ex EXCEPT
                        !.pc = "rows",
                        !.col_map = [key \in SemanticKeys |->
                                        ColMap(ex.grid.grid, table.columnCount, key)],
                        !.doc.items = ex.doc.items \o items,
                        !.doc2.items = ex.doc2.items \o items]
    /\ UNCHANGED <<db, doc, err, op, clock, az>>

\* lines 58-60: the status is set and the record is saved (validate runs)
ExSave ==
    /\ ex.pc = "rows"
    /\ ex' = [ex EXCEPT
                !.pc = "saved",
                !.doc = Save(ex.before, [ex.doc EXCEPT !.status = "Parsed"]).doc,
                !.doc2 = Save(ex.before2, [ex.doc2 EXCEPT !.status = "Parsed"]).doc]
    /\ UNCHANGED <<db, doc, err, op, clock, az>>

ExtractNext ==
    \/ \E id \in ExtractIds, t1 \in TargetNotes, t2 \in FreshNotes : ExStart(id, t1, t2)
    \/ ExHeaders
    \/ ExGrid
    \/ ExRows
    \/ ExSave

SpecExtract == Init /\ [][ExtractNext]_vars

(* ---------------------- the analysis call, step by step --------------- *)
(* call_azure_document_intelligence and poll_for_results, called on their *)
(* own or from parse_delivery_note_image (settings configured, a source   *)
(* file attached), which then extracts the result and saves the record.   *)

MaxRetries == 2
MaxTimeout == 4

\* lines 47-48: settings.azure_timeout or 120, settings.azure_max_retries or 3
DefaultTimeout == 120
DefaultMaxRetries == 3

\* lines 172, 181: time.sleep(2)
PollSleep == 2

\* the "status" of a response body; "" when the body has none
BodyStatuses == {"succeeded", "Succeeded", "failed", "running", "notStarted", "canceled", ""}

\* what the request of one poll and the rest of the round take besides the sleep
RequestSeconds == {0, 1}

\* a result without analyzeResult, and its extraction
EmptyResult == [id |-> "", keyValuePairs |-> <<>>, documents |-> <<>>, tables |-> <<>>]

ExtractedEmpty == Extraction(EmptyResult)

\* call_azure_document_intelligence(..., timeout, max_retries) is called
CallAzure(max_retries, timeout) ==
    /\ az.pc = "idle"
    /\ az' = [AzIdle EXCEPT !.pc = "submit", !.via = "call",
                            !.max_retries = max_retries, !.timeout = timeout]
    /\ UNCHANGED <<db, doc, err, op, clock, ex>>

\* lines 28-49: parse_delivery_note_image calls it with the settings
ParseImage(azure_max_retries, azure_timeout) ==
    /\ az.pc = "idle"
    /\ az' = [AzIdle EXCEPT
                !.pc = "submit", !.via = "parse",
                !.max_retries = IF azure_max_retries = 0 THEN DefaultMaxRetries
                                ELSE azure_max_retries,
                !.timeout = IF azure_timeout = 0 THEN DefaultTimeout ELSE azure_timeout]
    /\ UNCHANGED <<db, doc, err, op, clock, ex>>

\* lines 104-121: one pass of the submit loop; ok: the POST returned a
\* response and raise_for_status accepted it
Submit(ok) ==
    /\ az.pc = "submit"
    /\ az.attempt < az.max_retries
    /\ az' = IF ok
             THEN [az EXCEPT !.pc = "headers", !.posts = @ + 1, !.produced = TRUE]
             ELSE IF az.attempt = az.max_retries - 1
             THEN [az EXCEPT !.pc = "raised", !.posts = @ + 1, !.error = "SubmitFailed"]
             ELSE [az EXCEPT !.posts = @ + 1, !.attempt = @ + 1]
    /\ UNCHANGED <<db, doc, err, op, clock, ex>>

\* line 104: range(max_retries) is exhausted without a break or a throw,
\* which is the case only when it is empty
SubmitLoopEnds ==
    /\ az.pc = "submit"
    /\ ~(az.attempt < az.max_retries)
    /\ az' = [az EXCEPT !.pc = "headers"]
    /\ UNCHANGED <<db, doc, err, op, clock, ex>>

\* lines 124-131: response.headers is read (response is unbound when no
\* attempt assigned it); location: "url" for an Operation-Location header,
\* "request-id" for an apim-request-id header only, "" for neither
ReadHeaders(location) ==
    /\ az.pc = "headers"
    /\ az' = IF ~az.produced
             THEN [az EXCEPT !.pc = "raised", !.error = "UnboundLocalError"]
             ELSE [az EXCEPT !.pc = IF location = "" THEN "direct" ELSE "poll",
                             !.location = location]
    /\ UNCHANGED <<db, doc, err, op, clock, ex>>

\* lines 164-174: what poll_for_results does with the status of a body
PollOutcome(status) ==
    IF Lower(status) = "succeeded" THEN "return"
    ELSE IF Lower(status) = "failed" THEN "AnalysisFailed"
    ELSE IF Lower(status) \in {"running", "notstarted"} THEN "sleep"
    ELSE "UnexpectedStatus"

\* mutant: a round takes no time
AfterSleep_NoTime(elapsed, seconds) == elapsed

\* lines 158, 172, 181: time.time() - start_time after a round that ended
\* in time.sleep(2)
AfterSleep(elapsed, seconds) == elapsed + seconds + PollSleep

\* the same for every status, computed once
PollOutcomes == [status \in BodyStatuses |-> PollOutcome(status)]

\* lines 158-174: one round of the polling loop whose GET gives a body
\* (start_time ends with the call)
Poll(status, seconds) ==
    /\ az.pc = "poll"
    /\ az.location = "url"
    /\ az.elapsed < az.timeout
    /\ az' = CASE PollOutcomes[status] = "return" ->
                    [az EXCEPT !.pc = "returned", !.status = status, !.elapsed = 0]
               [] PollOutcomes[status] = "sleep" ->
                    [az EXCEPT !.status = status, !.elapsed = AfterSleep(@, seconds)]
               [] OTHER ->
                    [az EXCEPT !.pc = "raised", !.status = status,
                               !.error = PollOutcomes[status]]
    /\ UNCHANGED <<db, doc, err, op, clock, ex>>

\* lines 176-181: one round whose GET raises a RequestException (always, when
\* the location is a request id and not a URL)
PollTransportError(seconds) ==
    /\ az.pc = "poll"
    /\ az.elapsed < az.timeout
    /\ az' = [az EXCEPT !.elapsed = AfterSleep(@, seconds)]
    /\ UNCHANGED <<db, doc, err, op, clock, ex>>

\* lines 158, 183: the loop condition fails
PollTimeout ==
    /\ az.pc = "poll"
    /\ ~(az.elapsed < az.timeout)
    /\ az' = [az EXCEPT !.pc = "raised", !.error = "Timeout"]
    /\ UNCHANGED <<db, doc, err, op, clock, ex>>

\* lines 133-138: the body of the submit response is the result, whatever
\* its status; json: the body is JSON
Direct(json, status) ==
    /\ az.pc = "direct"
    /\ az' = IF json
             THEN [az EXCEPT !.pc = "returned", !.status = status]
             ELSE [az EXCEPT !.pc = "raised", !.error = "JSONDecodeError"]
    /\ UNCHANGED <<db, doc, err, op, clock, ex>>

\* the statuses of a finished analysis, which has an analyzeResult
SucceededStatuses == {status \in BodyStatuses : Lower(status) = "succeeded"}

\* lines 52-60 on the result the call returned: id names the analyzeResult
\* of a succeeded result; a result of another status has none
ParseReturned(id) ==
    LET d1 == [db EXCEPT !.raw_azure_json = IF az.status \in SucceededStatuses THEN id
                                            ELSE az.status]
        p == parse_azure_response(d1, IF az.status \in SucceededStatuses THEN Extracted[id]
                                      ELSE ExtractedEmpty)
        res == IF p.raised
               THEN [err |-> "ParseFailed", doc |-> p.doc, db |-> db]
               ELSE Save(db, [p.doc EXCEPT !.status = "Parsed"])
    IN /\ az.pc = "returned"
       /\ az.via = "parse"
       /\ az' = [az EXCEPT !.pc = "done"]
       /\ op' = [NoOp EXCEPT !.name = "parse", !.key = id]
       /\ err' = res.err
       /\ doc' = res.doc
       /\ db' = res.db
       /\ UNCHANGED <<clock, ex>>

AzureNext ==
    \/ \E max_retries \in 0..MaxRetries, timeout \in 0..MaxTimeout :
          CallAzure(max_retries, timeout)
    \/ \E azure_max_retries \in (0 - 1)..MaxRetries, azure_timeout \in 0..MaxTimeout :
          ParseImage(azure_max_retries, azure_timeout)
    \/ \E ok \in BOOLEAN : Submit(ok)
    \/ SubmitLoopEnds
    \/ \E location \in {"url", "request-id", ""} : ReadHeaders(location)
    \/ \E status \in BodyStatuses, seconds \in RequestSeconds : Poll(status, seconds)
    \/ \E seconds \in RequestSeconds : PollTransportError(seconds)
    \/ PollTimeout
    \/ \E json \in BOOLEAN, status \in BodyStatuses : Direct(json, status)
    \/ \E id \in ResultIds : ParseReturned(id)

SpecAzure == Init /\ [][AzureNext]_vars

\* a round of the polling loop, whatever its outcome
PollRound ==
    \/ \E status \in BodyStatuses, seconds \in RequestSeconds : Poll(status, seconds)
    \/ \E seconds \in RequestSeconds : PollTransportError(seconds)
    \/ PollTimeout

\* poll_for_results is sequential code: while it is in its loop it goes on
\* to the next round
SpecAzureLive == SpecAzure /\ WF_vars(PollRound)

(* ------------------------------ claims -------------------------------- *)
(* op, err and doc describe the last handler that ran: its name and       *)
(* arguments, the error it raised ("" for none) and the in-memory record  *)
(* it left; db is the persisted record.  In an action formula db is the   *)
(* record before the handler and db', doc', err', op' what it left.       *)

TransitionEdges ==
    { <<"Image Received", "Parsed">>,
      <<"Image Received", "Awaiting Driver Confirmation">>,
      <<"Parsed", "Awaiting Driver Confirmation">>,
      <<"Awaiting Driver Confirmation", "Confirmed by Driver">>,
      <<"Confirmed by Driver", "Delivered - Cash Received">>,
      <<"Confirmed by Driver", "Delivered - Credit">> }

\* C1: every change of the persisted status is an edge of the transition
\* table, and a handler that asks for a status which differs from the
\* persisted one and is no edge fails with InvalidTransition and persists
\* nothing.
C1_StatusChangesAreEdges ==
    [][ /\ (db'.status # db.status => <<db.status, db'.status>> \in TransitionEdges)
        /\ (doc'.status # db.status /\ <<db.status, doc'.status>> \notin TransitionEdges
              => err' = "InvalidTransition" /\ db' = db) ]_vars

C1_Witness ==
    /\ op.name = "parse" /\ op.key = "A"
    /\ err = "InvalidTransition"
    /\ db.status = "Awaiting Driver Confirmation"
    /\ doc.status = "Parsed"

\* C2: once the persisted status is Delivered - Cash Received or
\* Delivered - Credit, no handler changes it.
C2_TerminalIsFinal ==
    [][ db.status \in Terminal => db'.status = db.status ]_vars

C2_Witness ==
    /\ op.name = "deliver" /\ op.key = "Credit"
    /\ err = "InvalidTransition"
    /\ db.status = "Delivered - Cash Received"

\* C3 as claimed: confirmByDriver on a record with zero items fails with
\* NoItemsToConfirm whatever the persisted status is.
C3_AlwaysNoItemsToConfirm ==
    (op.name = "confirm" /\ db.items = <<>>) => err = "NoItemsToConfirm"

\* C3 as amended: confirmByDriver on a record with zero items always fails
\* and persists nothing; the error is NoItemsToConfirm when the persisted
\* status is Awaiting Driver Confirmation or Confirmed by Driver (the status
\* flow check passes), and InvalidTransition from every other status,
\* because the status flow is validated before the items.
C3_NoItemsAfterStatusFlow ==
    [][ (op'.name = "confirm" /\ db.items = <<>>) =>
          /\ db' = db
          /\ err' = IF db.status \in {"Awaiting Driver Confirmation", "Confirmed by Driver"}
                    THEN "NoItemsToConfirm"
                    ELSE "InvalidTransition" ]_vars

C3_Witness ==
    /\ op.name = "confirm"
    /\ db.items = <<>>
    /\ db.status = "Awaiting Driver Confirmation"
    /\ err = "NoItemsToConfirm"

\* every qty of the updates is a number or null
NumericUpdates(updates) ==
    \A i \in DOMAIN updates : updates[i].qty.k \in {"fin", "none"}

\* C4: confirmByDriver on a record whose persisted status is Image Received
\* or Parsed leaves the persisted record as it was, whatever updates it
\* carried, and (the quantities being numbers) fails with InvalidTransition.
C4_ConfirmFromParsedRejected ==
    [][ (op'.name = "confirm" /\ db.status \in {"Image Received", "Parsed"}) =>
          /\ db' = db
          /\ err' # ""
          /\ (NumericUpdates(op'.updates) => err' = "InvalidTransition") ]_vars

C4_Witness ==
    /\ op.name = "confirm" /\ op.updates = <<Upd(1, Fin(8))>>
    /\ err = "InvalidTransition"
    /\ db.status = "Parsed"
    /\ Len(db.items) = 2
    /\ db.items[1].qty = Fin(5)
    /\ doc.items[1].qty = Fin(8)
    /\ db.driver_confirmed_at = 0

\* C5: markDelivered with a payment type other than Cash and Credit fails
\* with InvalidPaymentType and leaves the in-memory and the persisted record
\* as they were, whatever the status; driver_delivery_status with a token
\* other than the two delivered tokens changes nothing either.
C5_InvalidPaymentTypeChangesNothing ==
    [][ /\ (op'.name = "deliver" /\ op'.key \notin {"Cash", "Credit"}) =>
              err' = "InvalidPaymentType" /\ db' = db /\ doc' = db
        /\ (op'.name = "status" /\ op'.key \in {"delivered", ""}) =>
              err' # "" /\ db' = db /\ doc' = db ]_vars

C5_Witness ==
    /\ op.name = "deliver" /\ op.key = "Bogus"
    /\ err = "InvalidPaymentType"
    /\ db.status = "Confirmed by Driver"
    /\ db.delivered_at = 0
    /\ clock = 2

\* C6: markDelivered(p), p Cash or Credit, on a record persisted as
\* Confirmed by Driver with at least one item succeeds and persists the
\* terminal status of p, payment_type = p and delivered_at = now.
C6_MarkDeliveredSucceeds ==
    [][ (/\ op'.name = "deliver" /\ op'.key \in {"Cash", "Credit"}
         /\ db.status = "Confirmed by Driver" /\ db.items # <<>>) =>
          /\ err' = ""
          /\ db'.status = (IF op'.key = "Cash" THEN "Delivered - Cash Received"
                                                ELSE "Delivered - Credit")
          /\ db'.payment_type = op'.key
          /\ db'.delivered_at = clock
          /\ db'.delivered_at > 0 ]_vars

C6_Witness ==
    /\ op.name = "deliver" /\ op.key = "Credit"
    /\ err = ""
    /\ db.status = "Delivered - Credit"
    /\ db.payment_type = "Credit"
    /\ db.delivered_at = 2

\* C7: the persisted payment_type matches the persisted status: Cash in
\* Delivered - Cash Received, Credit in Delivered - Credit, unset in every
\* other status.
C7_PaymentTypeMatchesStatus ==
    /\ db.status = "Delivered - Cash Received" => db.payment_type = "Cash"
    /\ db.status = "Delivered - Credit" => db.payment_type = "Credit"
    /\ db.status \notin Terminal => db.payment_type = ""

C7_Witness ==
    /\ op.name = "deliver" /\ op.key = "Cash"
    /\ err = "InvalidTransition"
    /\ doc.payment_type = "Cash"
    /\ db.status = "Parsed"
    /\ db.payment_type = ""

\* C8: a persisted record in Confirmed by Driver, Delivered - Cash Received
\* or Delivered - Credit has at least one line item.
C8_ConfirmedHasItems ==
    db.status \in {"Confirmed by Driver", "Delivered - Cash Received", "Delivered - Credit"}
        => Len(db.items) >= 1

C8_Witness ==
    /\ op.name = "parse" /\ op.key = "D"
    /\ err = "InvalidTransition"
    /\ doc.items = <<>>
    /\ db.status = "Confirmed by Driver"
    /\ Len(db.items) = 2

\* item b is item a with at most its qty changed
SameButQty(a, b) == [b EXCEPT !.qty = a.qty] = a

\* the items after are the items before, in number and order, with only a
\* qty changed, and only to the qty of an update whose key is the item's
OnlyMatchingQtyChanged(before, after, updates) ==
    /\ Len(after) = Len(before)
    /\ \A i \in DOMAIN before :
         /\ SameButQty(before[i], after[i])
         /\ after[i].qty # before[i].qty =>
              \E j \in DOMAIN updates :
                  updates[j].name = before[i].name /\ updates[j].qty = after[i].qty

\* C9: confirmByDriver changes only the qty of the existing items whose key
\* is the key of an update, in memory and in what it persists; updates that
\* match no item change nothing.
C9_OnlyMatchingQtyChanged ==
    [][ op'.name = "confirm" =>
          /\ OnlyMatchingQtyChanged(db.items, doc'.items, op'.updates)
          /\ OnlyMatchingQtyChanged(db.items, db'.items, op'.updates)
          /\ ((\A j \in DOMAIN op'.updates :
                 \A i \in DOMAIN db.items : db.items[i].name # op'.updates[j].name)
                => doc'.items = db.items /\ err' # "ValueError") ]_vars

C9_Witness ==
    /\ op.name = "confirm" /\ op.updates = <<Upd(2, Fin(0)), Upd(9, Fin(4))>>
    /\ err = ""
    /\ db.status = "Confirmed by Driver"
    /\ Len(db.items) = 2
    /\ db.items[1].qty = Fin(5)
    /\ db.items[2].qty = Fin(0)

\* the vocabulary entries of a field for which the result holds a value
EntriesWithValue(id, f) ==
    {k \in DOMAIN field_mapping :
        field_mapping[k][2] = f /\ Extracted[id].values[k] # ""}

\* C10: a header field that is already non-empty is never changed, in
\* memory or persisted; and a parse that does not raise fills an empty field
\* with the value of the first entry, in vocabulary order, that has one.
C10_FirstWriteWins ==
    [][ \A f \in HeaderFields :
          /\ db.hdr[f] # "" => doc'.hdr[f] = db.hdr[f] /\ db'.hdr[f] = db.hdr[f]
          /\ (/\ op'.name = "parse" /\ op'.key \in ResultIds
              /\ err' # "ParseFailed"
              /\ db.hdr[f] = ""
              /\ EntriesWithValue(op'.key, f) # {})
             => LET first == CHOOSE k \in EntriesWithValue(op'.key, f) :
                                \A j \in EntriesWithValue(op'.key, f) : k <= j
                IN doc'.hdr[f] = Extracted[op'.key].values[first] ]_vars

C10_Witness ==
    /\ op.name = "parse" /\ op.key = "B"
    /\ err = ""
    /\ db.hdr["delivery_note_no"] = "DN-123"
    /\ db.hdr["delivery_address"] = "Dubai"
    /\ db.hdr["customer_phone"] = "050"

(* ex describes the extraction being followed: its stage (pc), the result *)
(* (id), the two target records before (before, before2) and now (doc,    *)
(* doc2), the grid and col_map once built.                                *)

\* the stages at which the header loop has run
AfterHeaders == {"headers", "grid", "rows", "saved"}

\* the stages at which the data rows of a table with dimensions were read
RowsRead ==
    /\ ex.pc \in {"rows", "saved"}
    /\ ResultOf(ex.id).tables # <<>>
    /\ ResultOf(ex.id).tables[1].rowCount > 0
    /\ ResultOf(ex.id).tables[1].columnCount > 0

\* the first vocabulary entry, in dict order, that a label contains; 0 when
\* it contains none
FirstContained(label) ==
    LET hits == {k \in DOMAIN field_mapping : Contains(label, field_mapping[k][1])}
    IN IF hits = {} THEN 0 ELSE CHOOSE k \in hits : \A j \in hits : k <= j

\* C11: a key/value label is matched to a header field by substring: once
\* the header loop has run, a field that was empty and is the target of the
\* first vocabulary entry contained in some extracted label (lower-cased
\* and trimmed, with a non-empty value) is populated.
C11_SubstringLabelsPopulate ==
    ex.pc \in AfterHeaders =>
        LET pairs == KvPairs(ResultOf(ex.id).keyValuePairs)
        IN \A i \in DOMAIN pairs :
              LET k == FirstContained(pairs[i].k)
              IN (k # 0 /\ ex.before.hdr[field_mapping[k][2]] = "")
                     => ex.doc.hdr[field_mapping[k][2]] # ""

\* the cell of row r the positional default of a field names, "" when the
\* table has no such column
PositionalCell(r, c) ==
    IF c < ResultOf(ex.id).tables[1].columnCount THEN ex.grid.grid[r][c] ELSE ""

\* C12: a semantic column no header was classified into falls back to its
\* positional default (the serial number to the row index, the item id to
\* column 1, the item name to column 2, the quantity to column 3), so every
\* non-blank data row whose id or name is then non-empty yields an item
\* with these values.
C12_PositionalDefaults ==
    RowsRead =>
        LET table == ResultOf(ex.id).tables[1]
            has(key) == ex.col_map[key] >= 0
        IN \A r \in 1..(table.rowCount - 1) :
              LET row == ex.grid.grid[r]
                  item_id == IF has("item_id") THEN row[ex.col_map["item_id"]]
                             ELSE PositionalCell(r, 1)
                  item_name == IF has("item_name") THEN row[ex.col_map["item_name"]]
                               ELSE PositionalCell(r, 2)
                  qty == IF has("qty") THEN safe_float(row[ex.col_map["qty"]])
                         ELSE safe_float(PositionalCell(r, 3))
              IN (~RowEmpty(ex.grid.grid, table.columnCount, r)
                  /\ (item_name # "" \/ item_id # ""))
                     => \E i \in DOMAIN ex.doc.items :
                           /\ ex.doc.items[i].item_id = item_id
                           /\ ex.doc.items[i].item_name = item_name
                           /\ ex.doc.items[i].qty = qty
                           /\ has("sr_no") \/ ex.doc.items[i].sr_no = r

\* C13: extraction of an analysis result never raises, whatever is missing
\* or malformed inside the result.
C13_ExtractionNeverRaises ==
    ~ex.raised

\* the text the cells of a table put at (r, c): that of the last cell whose
\* indices are both within 0..count-1 and equal to (r, c), "" when none is
InBoundsText(table, r, c) ==
    LET hits == {i \in DOMAIN table.cells :
                    /\ table.cells[i].rowIndex = r
                    /\ table.cells[i].columnIndex = c}
    IN IF hits = {} THEN ""
       ELSE Strip(table.cells[CHOOSE i \in hits : \A j \in hits : j <= i].content)

\* C14: the grid holds, at every coordinate within the declared bounds, the
\* trimmed text of the cell that names this coordinate and "" when no cell
\* does: a cell with an index outside 0..count-1, a negative one included,
\* is discarded.
C14_OutOfBoundsCellsDiscarded ==
    (ex.pc \in {"grid", "rows", "saved"} /\ ex.grid.grid # <<>>) =>
        LET table == ResultOf(ex.id).tables[1]
        IN \A r \in 0..(table.rowCount - 1), c \in 0..(table.columnCount - 1) :
              ex.grid.grid[r][c] = InBoundsText(table, r, c)

\* the rules of header classification as the specification lists them, in
\* their order
RuleColumn ==
    <<"sr_no", "item_id", "flexi_code", "item_name", "unit", "qty", "cartons">>

RuleApplies(k, header) ==
    CASE k = 1 -> Contains(header, "sr") \/ (Contains(header, "no") /\ Len(header) < 10)
      [] k = 2 -> Contains(header, "item id") \/ Contains(header, "itemid")
      [] k = 3 -> Contains(header, "flexi")
      [] k = 4 -> Contains(header, "item name") \/ Contains(header, "description")
      [] k = 5 -> Contains(header, "unit") /\ ~Contains(header, "qty")
      [] k = 6 -> Contains(header, "qty") \/ Contains(header, "quantity")
      [] k = 7 -> Contains(header, "carton")

\* the semantic column of the first rule that applies, "" when none does
FirstRuleColumn(header) ==
    LET hits == {k \in DOMAIN RuleColumn : RuleApplies(k, header)}
    IN IF hits = {} THEN "" ELSE RuleColumn[CHOOSE k \in hits : \A j \in hits : k <= j]

\* the columns of the grid whose header the rules put into semantic column key
ColumnsOf(key) ==
    {c \in 0..(ResultOf(ex.id).tables[1].columnCount - 1) :
        FirstRuleColumn(Strip(Lower(ex.grid.grid[0][c]))) = key}

\* the text an item holds for a text field, and the cell a numeric field
\* was converted from: every item field that is not its default was read
\* from row r of a column in cols
ReadFrom(item, r, cols) ==
    /\ item.item_id # "" => \E c \in cols["item_id"] : ex.grid.grid[r][c] = item.item_id
    /\ item.flexi_code # "" => \E c \in cols["flexi_code"] : ex.grid.grid[r][c] = item.flexi_code
    /\ item.item_name # "" => \E c \in cols["item_name"] : ex.grid.grid[r][c] = item.item_name
    /\ item.unit # "" => \E c \in cols["unit"] : ex.grid.grid[r][c] = item.unit
    /\ item.qty # Fin(0) => \E c \in cols["qty"] : safe_float(ex.grid.grid[r][c]) = item.qty
    /\ item.cartons # Fin(0)
          => \E c \in cols["cartons"] : safe_float(ex.grid.grid[r][c]) = item.cartons
    /\ \/ item.sr_no = r
       \/ \E c \in cols["sr_no"] : safe_int(ex.grid.grid[r][c]).val = item.sr_no

\* C15: each header is classified into at most one semantic column, that
\* of the first rule of the fixed order that applies to it: col_map sends
\* every semantic column to a header the rules put there (to none when
\* there is none), no header is in two semantic columns, and every item
\* field that is not its default was read from a column the rules classify
\* for that field, so the column of a header matching no rule is not read.
C15_FirstApplicableRule ==
    RowsRead =>
        LET table == ResultOf(ex.id).tables[1]
            cols == [key \in SemanticKeys |-> ColumnsOf(key)]
        IN /\ \A key \in SemanticKeys :
                 IF cols[key] = {} THEN ex.col_map[key] = 0 - 1
                 ELSE ex.col_map[key] \in cols[key]
           /\ \A k1, k2 \in SemanticKeys :
                 (k1 # k2 /\ ex.col_map[k1] >= 0) => ex.col_map[k1] # ex.col_map[k2]
           /\ \A i \in DOMAIN ex.doc.items :
                 \E r \in 1..(table.rowCount - 1) : ReadFrom(ex.doc.items[i], r, cols)

\* a header several rules apply to ("unit qty": unit is excluded, qty
\* applies; "no. of cartons": only cartons, being 10 or more long), a header
\* no rule applies to, and an item read from the classified columns only
C15_Witness ==
    /\ ex.pc = "rows" /\ ex.id = "F"
    /\ ex.col_map = [sr_no |-> 0, item_id |-> 1, flexi_code |-> 2, item_name |-> 3,
                     unit |-> 4, qty |-> 5, cartons |-> 6]
    /\ FirstRuleColumn(Strip(Lower(ex.grid.grid[0][7]))) = ""
    /\ Len(ex.doc.items) = 1
    /\ ex.doc.items[1].item_name = "Hinge" /\ ex.doc.items[1].qty = Fin(12)

\* the item name and the item id row r gives: the cell of the column
\* col_map holds for the field, "" when it holds none
FieldCell(r, key) ==
    IF ex.col_map[key] >= 0 THEN ex.grid.grid[r][ex.col_map[key]] ELSE ""

\* the data rows that are to yield an item: not blank, and with an item
\* name or an item id
RetainedRows ==
    LET table == ResultOf(ex.id).tables[1]
    IN {r \in 1..(table.rowCount - 1) :
           /\ \E c \in 0..(table.columnCount - 1) : ex.grid.grid[r][c] # ""
           /\ FieldCell(r, "item_name") # "" \/ FieldCell(r, "item_id") # ""}

\* the i-th retained row in table order
RetainedRow(i) ==
    CHOOSE r \in RetainedRows : Cardinality({q \in RetainedRows : q < r}) = i - 1

\* C16: after a parse every line item of the record has a non-empty item
\* name or item id; the items of a table are exactly its retained data rows
\* (not blank, name or id non-empty), one item per row, in row order.
C16_RetainedRowsInOrder ==
    /\ ex.pc \in {"rows", "saved"} =>
          \A d \in {ex.doc, ex.doc2} : \A i \in DOMAIN d.items :
              d.items[i].item_name # "" \/ d.items[i].item_id # ""
    /\ RowsRead =>
          /\ Len(ex.doc.items) = Cardinality(RetainedRows)
          /\ \A i \in DOMAIN ex.doc.items :
                /\ ex.doc.items[i].item_name = FieldCell(RetainedRow(i), "item_name")
                /\ ex.doc.items[i].item_id = FieldCell(RetainedRow(i), "item_id")

\* a table with a blank row and a row that has a quantity only, and a table
\* with several retained rows
C16_Witness ==
    /\ ex.pc = "rows"
    /\ \/ /\ ex.id = "B"
          /\ RetainedRows = {2}
          /\ Len(ex.doc.items) = 1 /\ ex.doc.items[1].item_id = "X-1"
       \/ /\ ex.id = "J"
          /\ RetainedRows = {1, 2, 3, 4}
          /\ ex.doc.items[1].item_name = "Pipe" /\ ex.doc.items[4].item_name = "Tee"

\* the short name the specification gives an item name
First40(name) ==
    IF Len(name) > 40 THEN SubSeq(name, 1, 40) \o "..." ELSE name

\* what validation may do to the short name of one item
ShortNameStep(b, a) ==
    /\ Len(a.item_name_short) <= 43
    /\ a.item_name = b.item_name
    /\ b.item_name_short # "" => a.item_name_short = b.item_name_short
    /\ (b.item_name_short = "" /\ b.item_name # "") => a.item_name_short = First40(b.item_name)

\* C17: the save that validates a record leaves every item with a short
\* name of at most 43 characters: a short name that was non-empty is not
\* changed, an empty one becomes the first 40 characters of the item name,
\* followed by the 3-character marker only when the name is longer than 40.
C17_ShortNameBoundedAndKept ==
    [][(ex.pc = "rows" /\ ex'.pc = "saved") =>
          /\ Len(ex'.doc.items) = Len(ex.doc.items)
          /\ Len(ex'.doc2.items) = Len(ex.doc2.items)
          /\ \A i \in DOMAIN ex.doc.items : ShortNameStep(ex.doc.items[i], ex'.doc.items[i])
          /\ \A i \in DOMAIN ex.doc2.items : ShortNameStep(ex.doc2.items[i], ex'.doc2.items[i])]_vars

\* a record validated again: it keeps a short name that is no longer the
\* start of its item name, and a short name of 43 characters
C17_Witness ==
    /\ ex.pc = "saved" /\ ex.id = "C" /\ ex.before = EditedNote
    /\ ex.doc.items[1].item_name = "Widget XL"
    /\ ex.doc.items[1].item_name_short = "Widget"
    /\ Len(ex.doc.items[2].item_name) > 40
    /\ Len(ex.doc.items[2].item_name_short) = 43

\* the header fields the pairs of the result hold a value for, under one of
\* the vocabulary labels
FieldsWithValue ==
    LET values == LabelValues(extract_key_value_pairs(ResultOf(ex.id)))
    IN {field_mapping[k][2] : k \in {j \in DOMAIN field_mapping : values[j] # ""}}

\* C19 as stated: two extractions of the same result, into whatever target
\* records, leave the same value in every header field the result has a
\* value for and, when the result has a table, the same ordered line items.
C19_IndependentOfTarget ==
    ex.pc \in {"rows", "saved"} =>
        /\ \A f \in FieldsWithValue : ex.doc.hdr[f] = ex.doc2.hdr[f]
        /\ ResultOf(ex.id).tables # <<>> => ex.doc.items = ex.doc2.items

\* what one target record holds after the extraction, given what it held
KeepsItsOwn(before, after) ==
    /\ \A f \in HeaderFields : before.hdr[f] # "" => after.hdr[f] = before.hdr[f]
    /\ ResultOf(ex.id).tables = <<>> => after.items = before.items

\* C19, amended: extraction is deterministic in the raw result and the
\* target record.  Into two records that held the same it gives the same;
\* into any two records it gives the same ordered line items when the
\* result has a table and the same value in every header field that was
\* empty in both, while a header field that held a value keeps it and,
\* when the result has no table, each record keeps its own items.
C19_SameResultSameExtraction ==
    ex.pc \in {"rows", "saved"} =>
        /\ ex.before = ex.before2 => ex.doc = ex.doc2
        /\ ResultOf(ex.id).tables # <<>> => ex.doc.items = ex.doc2.items
        /\ \A f \in HeaderFields :
              (ex.before.hdr[f] = "" /\ ex.before2.hdr[f] = "") => ex.doc.hdr[f] = ex.doc2.hdr[f]
        /\ KeepsItsOwn(ex.before, ex.doc)
        /\ KeepsItsOwn(ex.before2, ex.doc2)

\* one result extracted into a new record and into one that held a delivery
\* note number and items: same items, same address, own number
C19_Witness ==
    /\ ex.pc = "saved" /\ ex.id = "B"
    /\ ex.before = NewNote /\ ex.before2 = EditedNote
    /\ ex.doc.hdr["delivery_note_no"] = "DN-9"
    /\ ex.doc2.hdr["delivery_note_no"] = "DN-1"
    /\ ex.doc.hdr["delivery_address"] = "Dubai" /\ ex.doc2.hdr["delivery_address"] = "Dubai"
    /\ Len(ex.doc.items) = 1 /\ ex.doc.items = ex.doc2.items

(* az describes the analysis call being followed: its stage (pc), who     *)
(* called it (via), its arguments, the submit attempts made (posts),      *)
(* whether one of them bound the response (produced), the status of the   *)
(* result it returned or raised on, and the error it raised.              *)

\* C18: the record becomes Parsed only on a succeeded analysis result: the
\* analysis call returns, and so hands to extraction, only a result whose
\* status is succeeded, and a record that the parse left Parsed had such a
\* result.
C18_ParsedOnlyOnSucceeded ==
    /\ az.pc \in {"returned", "done"} => az.status \in SucceededStatuses
    /\ (az.pc = "done" /\ db.status = "Parsed") => az.status \in SucceededStatuses
    /\ az.pc = "raised" => db.status # "Parsed"

\* C20: for max_retries >= 0 the call makes at most max_retries submit
\* attempts, makes none after one succeeded, leaves the submit loop without
\* a response exactly by raising the submit failure after max_retries
\* failed attempts, and so never reads a response no attempt produced.
C20_BoundedSubmitRetry ==
    (az.pc # "idle" /\ az.max_retries >= 0) =>
        /\ az.posts <= az.max_retries
        /\ az.pc = "submit" => ~az.produced
        /\ (az.pc # "submit" /\ ~az.produced)
              => (az.pc = "raised" /\ az.error = "SubmitFailed" /\ az.posts = az.max_retries)
        /\ az.error = "SubmitFailed" => (~az.produced /\ az.posts = az.max_retries)
        /\ az.error # "UnboundLocalError"

\* C21: polling always terminates.  A round of poll_for_results either
\* returns, on a body whose status is succeeded; or raises on a body whose
\* status is failed or unexpected; or, when the elapsed time has reached
\* the timeout, raises the timeout error; or goes on to another round with
\* more time elapsed (running, notstarted, transport error).  So it never
\* returns a result that is not succeeded, and it leaves the loop.
C21_PollingTerminates ==
    /\ [][az.pc = "poll" =>
            \/ /\ az.elapsed < az.timeout
               /\ az'.pc = "returned"
               /\ az'.status \in SucceededStatuses
            \/ /\ az.elapsed < az.timeout
               /\ az'.pc = "raised"
               /\ az'.error \in {"AnalysisFailed", "UnexpectedStatus"}
               /\ az'.status \notin SucceededStatuses \cup {"running", "notStarted"}
            \/ /\ az.elapsed < az.timeout
               /\ az'.pc = "poll"
               /\ az'.elapsed > az.elapsed
            \/ /\ az.elapsed >= az.timeout
               /\ az'.pc = "raised"
               /\ az'.error = "Timeout"]_vars
    /\ (az.pc = "poll") ~> (az.pc \in {"returned", "raised"})

\* polling that went through rounds of running / notstarted answers and
\* ended in the timeout error
C21_Witness ==
    /\ az.pc = "raised" /\ az.error = "Timeout"
    /\ az.location = "url" /\ az.status \in {"running", "notStarted"}
    /\ az.timeout > 0 /\ az.elapsed >= az.timeout

\* C22: a persisted record in Awaiting Driver Confirmation without items is
\* stuck: no handler (parse, send review flow, confirmByDriver,
\* markDelivered) changes its persisted status or gives it items.
C22_AwaitingWithoutItemsIsStuck ==
    [][(db.status = "Awaiting Driver Confirmation" /\ db.items = <<>>)
          => (db'.status = db.status /\ db'.items = <<>>)]_vars

\* the driver's confirmation was tried on such a record and rejected
C22_Witness ==
    /\ db.status = "Awaiting Driver Confirmation" /\ db.items = <<>>
    /\ op.name = "confirm" /\ err = "NoItemsToConfirm"

\* C23: a persisted record in Confirmed by Driver or a delivered status has
\* driver_confirmed_at set, one in a delivered status has delivered_at set
\* as well, and one in Image Received, Parsed or Awaiting Driver
\* Confirmation has neither (0 stands for "not set").
C23_TimestampsMatchStatus ==
    /\ db.status \in {"Confirmed by Driver"} \cup Terminal => db.driver_confirmed_at # 0
    /\ db.status \in Terminal => db.delivered_at # 0
    /\ db.status \in {"Image Received", "Parsed", "Awaiting Driver Confirmation"}
          => (db.driver_confirmed_at = 0 /\ db.delivered_at = 0)
    /\ db.status = "Confirmed by Driver" => db.delivered_at = 0

\* a delivered record, confirmed before the clock advanced and delivered after
C23_Witness ==
    /\ db.status \in Terminal
    /\ db.driver_confirmed_at # 0
    /\ db.delivered_at > db.driver_confirmed_at

\* the quantities of the items, in order
Quantities(d) == [i \in DOMAIN d.items |-> d.items[i].qty]

\* C24: once the persisted record is in a terminal status, no handler
\* changes its delivered_at, driver_confirmed_at, payment_type or item
\* quantities.
C24_TerminalAuditFrozen ==
    [][db.status \in Terminal =>
          /\ db'.delivered_at = db.delivered_at
          /\ db'.driver_confirmed_at = db.driver_confirmed_at
          /\ db'.payment_type = db.payment_type
          /\ Quantities(db') = Quantities(db)]_vars

C27_SentImpliesAwaiting ==
    (op.name = "send" /\ op.sent) => db.status = "Awaiting Driver Confirmation"

\* C26: parsing is idempotent: the same result (with a table) applied again
\* to the record its first application left (of a record in Image Received
\* or in Parsed) leaves the same header fields and the same ordered items:
\* the items of the first parse are replaced, not appended to.
C26_ParseTwiceSameAsOnce ==
    \A t \in FreshNotes :
        (ex.pc = "saved" /\ ex.id \in TwiceIds /\ ex.before = ParsedOnce[t, ex.id]) =>
            /\ ex.doc.status = "Parsed"
            /\ ex.doc.hdr = ex.before.hdr
            /\ ex.doc.items = ex.before.items

\* result A applied a second time to the record it was first parsed into
C26_Witness ==
    /\ ex.pc = "saved" /\ ex.id = "A"
    /\ ex.before = ParsedOnce[NewNote, "A"]
    /\ ex.before.status = "Parsed"
    /\ Len(ex.before.items) = 2
    /\ ex.doc.items = ex.before.items
    /\ ex.doc.hdr["delivery_note_no"] = "DN-123"

====
